---- MODULE Spec2Model ----
(***************************************************************************)
(* Multi-symbol Williams A/D watcher (src/main.py).                        *)
(*                                                                         *)
(* Prices are modelled as small integers (ticks).  Every value the code    *)
(* computes from them (high - low, the running WAD, the window sum) is     *)
(* then an integer that binary floating point represents exactly, and the  *)
(* comparison  wad > sum/len  has the same outcome as  wad*len > sum.      *)
(* Optional values are sequences: << >> is None, <<v>> is the value v.     *)
(* print() is taken to succeed; the only step of the alert path that can   *)
(* raise inside the handler is the formatting of the close time, which     *)
(* time.gmtime rejects when the timestamp is out of its range.             *)
(***************************************************************************)
EXTENDS Integers, Sequences, FiniteSets, TLC

(* ------------------------------ bounds ------------------------------- *)
\* largest SMA_LEN the configuration is drawn from
MaxSmaLen == 3
\* largest price (in ticks) carried by a candle
MaxPrice == 1
\* cap on |wad| (the running sum is unbounded in the code)
MaxWad == 1

(* --------------------------- configuration --------------------------- *)
\* symbols the feed carries; SYMBOLS (line 21) is a subset, fixed at import
FeedSymbols == {"A", "B"}
\* SMA_LEN, line 17: values the environment may set
SmaLens == 1..MaxSmaLen

None == << >>
Some(v) == <<v>>

\* str.upper() on the symbols that occur in the feed (line 95)
Upper(s) ==
    CASE s = "a" -> "A"
      [] s = "b" -> "B"
      [] s = "x" -> "X"
      [] OTHER -> s

\* time.gmtime (line 43) accepts seconds up to a platform limit; the limit is
\* scaled down to a small number, TsValues holds a value on either side of it
GmtimeMax == 1

\* now_utc_str, lines 42-43: TRUE iff strftime(gmtime(ts_ms // 1000)) returns
now_utc_str_ok(ts_ms) == (ts_ms \div 1000) <= GmtimeMax

\* faulty variant of wad_step: an unchanged close counts as a rise
wad_step_ge(close, prev_close, high, low) ==
    IF close >= prev_close THEN high - low ELSE -(high - low)

\* wad_step, lines 46-51
wad_step(close, prev_close, high, low) ==
    IF close > prev_close THEN high - low
    ELSE IF close < prev_close THEN -(high - low)
    ELSE 0

\* WadState, lines 53-62: the value defaultdict(WadState) creates
WadState == [prev_close |-> None, wad |-> 0, sma_buf |-> << >>, last_rel |-> None]

\* faulty variant of deque_append: a full window is emptied, not shifted
deque_append_reset(buf, v, maxlen) ==
    IF Len(buf) < maxlen THEN Append(buf, v) ELSE <<v>>

\* faulty variant of deque_append: a value equal to the newest entry is skipped
deque_append_dedup(buf, v, maxlen) ==
    IF buf # << >> /\ buf[Len(buf)] = v THEN buf
    ELSE IF Len(buf) < maxlen THEN Append(buf, v) ELSE Tail(Append(buf, v))

\* faulty variant of deque_append: a plain list, nothing is evicted
deque_append_unbounded(buf, v, maxlen) == Append(buf, v)

\* deque(maxlen=SMA_LEN).append, lines 62 and 116
deque_append(buf, v, maxlen) ==
    IF Len(buf) < maxlen THEN Append(buf, v) ELSE Tail(Append(buf, v))

RECURSIVE Sum(_)
\* sum(st.sma_buf), line 119
Sum(buf) == IF buf = << >> THEN 0 ELSE Head(buf) + Sum(Tail(buf))

\* faulty variant of Bootstrapping: off by one, evaluates one entry early
Bootstrapping_early(buf, N) == Len(buf) < N - 1

\* line 117: the window is not full yet
Bootstrapping(buf, N) == Len(buf) < N

\* faulty variant of Seed: the seeding close also snapshots the WAD
Seed_snapshot(st, close) ==
    [st EXCEPT !.prev_close = Some(close), !.sma_buf = Append(st.sma_buf, st.wad)]

\* lines 109-111: the first close of a symbol only seeds prev_close
Seed(st, close) == [st EXCEPT !.prev_close = Some(close)]

\* faulty variant of Relation: a tie counts as Above
Relation_ge(wad, buf) == IF wad * Len(buf) >= Sum(buf) THEN 1 ELSE -1

\* lines 119-121: rel = 1 if st.wad > sum(buf)/len(buf) else -1
Relation(wad, buf) == IF wad * Len(buf) > Sum(buf) THEN 1 ELSE -1

\* faulty variant of Crosses: every evaluation with a known relation alerts
Crosses_always(last_rel, rel) == last_rel # None

\* faulty variant of Crosses: no test for an unknown stored relation
Crosses_unknown(last_rel, rel) == last_rel # Some(rel)

\* line 122: the crossover test against the stored relation
Crosses(last_rel, rel) == last_rel # None /\ last_rel # Some(rel)

\* round(sma_val, 2), line 128, in hundredths
Round2(buf) == (200 * Sum(buf) + Len(buf)) \div (2 * Len(buf))

\* lines 123-130: the alert text, as the values it is formatted from
AlertText(sym, rel, close, wad, buf, ts) ==
    [kind |-> "cross", dir |-> rel, sym |-> sym, close |-> close,
     wad |-> wad, sma |-> Round2(buf), ts |-> ts]

\* lines 73 and 146: the start-up and shutdown texts
InfoText(kind) ==
    [kind |-> kind, dir |-> 0, sym |-> "", close |-> 0, wad |-> 0, sma |-> 0, ts |-> 0]

(* ------------------------------ messages ----------------------------- *)
\* A feed message after json.loads and the envelope selection of line 93:
\*   json : json.loads returned an object          s  : data["s"] ("" if absent)
\*   ks   : k["s"] ("" if absent)                  x  : k["x"] is truthy
\*   c, h, l, T : << >> if the field is missing or float()/int() rejects it
Prices == 0..MaxPrice
TsValues == {0, (GmtimeMax + 1) * 1000}

Candle(s, c, h, l, T) ==
    [json |-> TRUE, s |-> s, ks |-> "", x |-> TRUE,
     c |-> Some(c), h |-> Some(h), l |-> Some(l), T |-> Some(T)]

\* every closed candle of the symbols in syms
Candles(syms) ==
    {Candle(s, c, h, l, T) : s \in syms, c \in Prices, h \in Prices, l \in Prices,
                             T \in TsValues}

BaseMsg == Candle("A", 1, 1, 0, 0)

OddMsgs ==
    { [BaseMsg EXCEPT !.s = "a"],
      [BaseMsg EXCEPT !.s = "", !.ks = "b"],
      [BaseMsg EXCEPT !.c = Some(0), !.T = Some((GmtimeMax + 1) * 1000 - 1)] }

\* candles of symbols outside the largest watch-list, and two of symbol B
OtherMsgs ==
    { [BaseMsg EXCEPT !.s = "X"], [BaseMsg EXCEPT !.s = "x"],
      [BaseMsg EXCEPT !.s = "B"], [BaseMsg EXCEPT !.s = "B", !.c = Some(0), !.h = Some(0)] }

BadMsgs ==
    { [BaseMsg EXCEPT !.json = FALSE],
      [BaseMsg EXCEPT !.s = ""],
      [BaseMsg EXCEPT !.x = FALSE],
      [BaseMsg EXCEPT !.c = None],
      [BaseMsg EXCEPT !.h = None],
      [BaseMsg EXCEPT !.l = None],
      [BaseMsg EXCEPT !.T = None],
      [BaseMsg EXCEPT !.s = "B", !.x = FALSE, !.c = None],
      [BaseMsg EXCEPT !.s = "B", !.c = Some(0), !.T = None] }

\* the feed when only A is watched, and when A and B are
MsgsA == Candles({"A"}) \cup OddMsgs \cup OtherMsgs \cup BadMsgs
MsgsAB == Candles(FeedSymbols) \cup OddMsgs \cup OtherMsgs \cup BadMsgs

(* -------------------------------- state ------------------------------ *)
VARIABLES
    cfg,      \* [SYMBOLS, SMA_LEN, telegram]: the environment read at import (lines 14-21)
    states,   \* the defaultdict of line 65: symbol -> WadState, created lazily
    pc,       \* where main() and the transport are (lines 140-150)
    last,     \* what the most recent step did: the operation, the symbol it worked
              \* on, how it left, and that symbol's last_rel when it started
    sent      \* the send_telegram calls of the most recent step, in order

vars == <<cfg, states, pc, last, sent>>

\* line 95: sym = (data.get("s") or k.get("s") or "").upper()
SymOf(m) == Upper(IF m.s # "" THEN m.s ELSE m.ks)

\* faulty variant of Parse: the closed flag of line 100 is not tested
Parse_open(m) ==
    IF ~m.json THEN "exception"
    ELSE IF SymOf(m) = "" \/ SymOf(m) \notin cfg.SYMBOLS THEN "drop_symbol"
    ELSE IF m.c = None \/ m.h = None \/ m.l = None \/ m.T = None THEN "exception"
    ELSE "candle"

\* faulty variant of Parse: the watch-list of line 96 is not consulted
Parse_anysym(m) ==
    IF ~m.json THEN "exception"
    ELSE IF SymOf(m) = "" THEN "drop_symbol"
    ELSE IF ~m.x THEN "drop_open"
    ELSE IF m.c = None \/ m.h = None \/ m.l = None \/ m.T = None THEN "exception"
    ELSE "candle"

\* lines 92-106: what the handler does before it touches the store
\*   "exception"   json.loads, float() or int() raised (caught on line 136)
\*   "drop_symbol" line 97      "drop_open" line 101      "candle" reaches line 108
Parse(m) ==
    IF ~m.json THEN "exception"
    ELSE IF SymOf(m) = "" \/ SymOf(m) \notin cfg.SYMBOLS THEN "drop_symbol"
    ELSE IF ~m.x THEN "drop_open"
    ELSE IF m.c = None \/ m.h = None \/ m.l = None \/ m.T = None THEN "exception"
    ELSE "candle"

\* faulty variant of Lookup: one WadState shared by all symbols
Lookup_shared(sym) ==
    IF DOMAIN states = {} THEN WadState ELSE states[CHOOSE s \in DOMAIN states : TRUE]

\* states[sym] on line 108: an absent key is created with the default value
Lookup(sym) == IF sym \in DOMAIN states THEN states[sym] ELSE WadState

\* lines 109-134 on the state st of one symbol; the result carries the new
\* state, how the handler left, and the alert text handed to send_telegram
Advance(st, sym, close, high, low, ts, N) ==
    IF st.prev_close = None
    THEN [st |-> Seed(st, close), outcome |-> "seed", texts |-> << >>]
    ELSE
        LET wad == st.wad + wad_step(close, st.prev_close[1], high, low)
            buf == deque_append(st.sma_buf, wad, N)
            st1 == [st EXCEPT !.wad = wad, !.prev_close = Some(close), !.sma_buf = buf]
        IN  IF Bootstrapping(buf, N)
            THEN [st |-> st1, outcome |-> "bootstrap", texts |-> << >>]
            ELSE
                LET rel == Relation(wad, buf)
                IN  IF Crosses(st.last_rel, rel)
                    THEN IF now_utc_str_ok(ts)
                         THEN [st |-> [st1 EXCEPT !.last_rel = Some(rel)],
                               outcome |-> "evaluated",
                               texts |-> <<AlertText(sym, rel, close, wad, buf, ts)>>]
                         ELSE [st |-> st1, outcome |-> "render_failed", texts |-> << >>]
                    ELSE [st |-> [st1 EXCEPT !.last_rel = Some(rel)],
                          outcome |-> "evaluated", texts |-> << >>]

\* send_telegram, lines 31-40: how one call can end
TgResults == {"ok", "non200", "exception"}

\* the calls of one step: each text with the way its delivery ended
Deliveries(texts) ==
    IF ~cfg.telegram
    THEN { [i \in 1..Len(texts) |-> [text |-> texts[i], result |-> "unconfigured"]] }
    ELSE { [i \in 1..Len(texts) |-> [text |-> texts[i], result |-> r]] : r \in TgResults }

\* faulty variant of send_telegram_returns: no try/except around the post
send_telegram_propagates(result) == result # "exception"

\* lines 35-40: send_telegram catches what requests.post raises, so the call
\* of line 132 returns to on_message however the delivery ended
send_telegram_returns(result) == TRUE

\* the state after import, for a watch-list drawn from watch
Start(watch) ==
    /\ cfg \in [SYMBOLS : watch, SMA_LEN : SmaLens, telegram : BOOLEAN]
    /\ states = << >>
    /\ pc = "loop"
    /\ last = [op |-> "start", sym |-> "", outcome |-> "", rel0 |-> None]
    /\ sent = << >>

\* one watched symbol; the other symbols of the feed are unknown to the watcher
Init == Start({{"A"}})

\* on_message, lines 83-137, as a function of the store and the message:
\* the store it leaves, what it did, and the texts it hands to send_telegram,
\* for send_telegram calls that return
on_message(m) ==
    LET p == Parse(m)
        sym == SymOf(m)
    IN  IF p = "candle"
        THEN LET r == Advance(Lookup(sym), sym, m.c[1], m.h[1], m.l[1], m.T[1], cfg.SMA_LEN)
             IN  [states |-> (sym :> r.st) @@ states,
                  last |-> [op |-> "on_message", sym |-> sym, outcome |-> r.outcome,
                            rel0 |-> Lookup(sym).last_rel],
                  texts |-> r.texts]
        ELSE [states |-> states,
              last |-> [op |-> "on_message", sym |-> "", outcome |-> p, rel0 |-> None],
              texts |-> << >>]

\* lines 132-137: r is on_message's result, d the deliveries of its texts; a
\* send_telegram call that raised would leave through the except of line 136
\* with line 134 not run
Completed(r, d) ==
    IF \A i \in 1..Len(d) : send_telegram_returns(d[i].result)
    THEN r
    ELSE [r EXCEPT !.states[r.last.sym].last_rel = r.last.rel0,
                   !.last.outcome = "send_failed"]

\* the transport delivers m to on_message (line 142), which runs to its end
OnMessage(m) ==
    /\ pc = "open"
    /\ LET r == on_message(m)
       IN  \E d \in Deliveries(r.texts) :
               /\ states' = Completed(r, d).states
               /\ last' = Completed(r, d).last
               /\ sent' = d
    /\ UNCHANGED <<cfg, pc>>

(* ----------------------------- supervisor ---------------------------- *)
\* pc: "loop"       top of the while of line 141
\*     "connecting" inside run_forever (line 144), on_open not yet called
\*     "open"       on_open has run; messages are delivered
\*     "failing"    on_error has run, the transport is going down
\*     "closed"     on_close has run, run_forever is about to end
\*     "backoff"    in time.sleep(5) of line 150
\*     "stopped"    after the break of line 147
\*     "killed"     KeyboardInterrupt outside the try block left main()
Callback(op) == [op |-> op, sym |-> "", outcome |-> "", rel0 |-> None]

\* faulty variant of Connect: every new connection starts from an empty store
Connect_fresh ==
    /\ pc = "loop"
    /\ pc' = "connecting"
    /\ last' = Callback("connect")
    /\ sent' = << >>
    /\ states' = << >>
    /\ UNCHANGED cfg

\* lines 141-144: a new WebSocketApp, run_forever starts
Connect ==
    /\ pc = "loop"
    /\ pc' = "connecting"
    /\ last' = Callback("connect")
    /\ sent' = << >>
    /\ UNCHANGED <<cfg, states>>

\* on_open, lines 68-75
OnOpen ==
    /\ pc = "connecting"
    /\ pc' = "open"
    /\ last' = Callback("on_open")
    /\ sent' \in Deliveries(<<InfoText("started")>>)
    /\ UNCHANGED <<cfg, states>>

\* on_error, lines 80-81
OnError ==
    /\ pc \in {"connecting", "open"}
    /\ pc' = "failing"
    /\ last' = Callback("on_error")
    /\ sent' = << >>
    /\ UNCHANGED <<cfg, states>>

\* on_close, lines 77-78
OnClose ==
    /\ pc \in {"connecting", "open", "failing"}
    /\ pc' = "closed"
    /\ last' = Callback("on_close")
    /\ sent' = << >>
    /\ UNCHANGED <<cfg, states>>

\* line 144 returns without an exception: the while loop goes round at once
RunReturns ==
    /\ pc = "closed"
    /\ pc' = "loop"
    /\ last' = Callback("return")
    /\ sent' = << >>
    /\ UNCHANGED <<cfg, states>>

\* lines 148-150: run_forever raised an Exception; print, then time.sleep(5)
RunRaises ==
    /\ pc \in {"connecting", "open", "failing", "closed"}
    /\ pc' = "backoff"
    /\ last' = Callback("raise")
    /\ sent' = << >>
    /\ UNCHANGED <<cfg, states>>

\* line 150: the sleep ends
Wake ==
    /\ pc = "backoff"
    /\ pc' = "loop"
    /\ last' = Callback("wake")
    /\ sent' = << >>
    /\ UNCHANGED <<cfg, states>>

\* lines 145-147: KeyboardInterrupt out of run_forever
Interrupt ==
    /\ pc \in {"connecting", "open", "failing", "closed"}
    /\ pc' = "stopped"
    /\ last' = Callback("interrupt")
    /\ sent' \in Deliveries(<<InfoText("stopped")>>)
    /\ UNCHANGED <<cfg, states>>

\* KeyboardInterrupt at line 142 or in the sleep of line 150: no handler
Kill ==
    /\ pc \in {"loop", "backoff"}
    /\ pc' = "killed"
    /\ last' = Callback("kill")
    /\ sent' = << >>
    /\ UNCHANGED <<cfg, states>>

Abs(n) == IF n < 0 THEN -n ELSE n

\* the running sums stay within the bound of the model
WithinBounds == \A s \in DOMAIN states' : Abs(states'[s].wad) <= MaxWad

\* the messages the subscription of line 26 can deliver
Msgs == IF cfg.SYMBOLS = {"A"} THEN MsgsA ELSE MsgsAB

Deliver == \E m \in Msgs : OnMessage(m) /\ WithinBounds

Next ==
    \/ Connect
    \/ OnOpen
    \/ Deliver
    \/ OnError
    \/ OnClose
    \/ RunReturns
    \/ RunRaises
    \/ Wake
    \/ Interrupt
    \/ Kill

Spec == Init /\ [][Next]_vars

(* ------------------------- vocabulary of the claims ------------------ *)
\* the state of the symbol the last message was processed for
St == states[last.sym]

\* the last step processed a final close of a watched symbol
Processed ==
    /\ last.op = "on_message"
    /\ last.outcome \in {"seed", "bootstrap", "evaluated", "render_failed"}

\* ... and it was not the seeding close
Accumulated == Processed /\ last.outcome # "seed"

\* an evaluation: a close processed with the window at length N
Evaluation == Accumulated /\ Len(St.sma_buf) = cfg.SMA_LEN

\* Above iff cumulativeWad is strictly greater than the window average
Above(st) == st.wad * Len(st.sma_buf) > Sum(st.sma_buf)
Tie(st) == st.wad * Len(st.sma_buf) = Sum(st.sma_buf)
NewRel(st) == IF Above(st) THEN 1 ELSE -1

\* the CrossoverEvents the last step handed to the notifier
NoEvent == \A i \in 1..Len(sent) : sent[i].text.kind # "cross"
OneEvent(sym, dir) ==
    /\ Len(sent) = 1
    /\ sent[1].text.kind = "cross"
    /\ sent[1].text.sym = sym
    /\ sent[1].text.dir = dir

(* -------------------------------- claims ----------------------------- *)
\* C1: at every evaluation a CrossoverEvent is emitted if and only if the
\* stored relation was known and differs from the new one; its direction is
\* the new relation (Up for Above, Down for Below).
C1_OneAlertPerCrossing ==
    Evaluation =>
        IF last.rel0 # None /\ last.rel0 # Some(NewRel(St))
        THEN OneEvent(last.sym, NewRel(St))
        ELSE NoEvent

\* C2: a close processed while the window is still shorter than N emits no
\* event, computes no relation and leaves last_rel as it was.
C2_Bootstrap ==
    (Processed /\ Len(St.sma_buf) < cfg.SMA_LEN) =>
        /\ NoEvent
        /\ last.outcome \in {"seed", "bootstrap"}
        /\ St.last_rel = last.rel0
        /\ St.last_rel = None

C2_Witness ==
    /\ Accumulated
    /\ Len(St.sma_buf) >= 1
    /\ Len(St.sma_buf) < cfg.SMA_LEN

\* C3: the first evaluation of a symbol (last_rel still unknown) emits no
\* event whatever the relation is; it only records the relation.
C3_FirstEvaluationSilent ==
    (Evaluation /\ last.rel0 = None) =>
        /\ NoEvent
        /\ St.last_rel = Some(NewRel(St))

C3_Witness == Evaluation /\ last.rel0 = None /\ Above(St) /\ cfg.SMA_LEN > 1

\* C4: the first valid final close of a symbol sets prev_close to its close
\* and nothing else (wad 0, empty window, last_rel unknown, no event); and
\* wad only ever changes in a close processed with prev_close already set.
C4_SeedStep ==
    (\E s \in cfg.SYMBOLS : Lookup(s).prev_close = None) =>
        \A m \in Msgs :
            (Parse(m) = "candle" /\ Lookup(SymOf(m)).prev_close = None /\ OnMessage(m)) =>
                /\ states'[SymOf(m)] =
                       [prev_close |-> Some(m.c[1]), wad |-> 0, sma_buf |-> << >>,
                        last_rel |-> None]
                /\ sent' = << >>

C4_WadStep ==
    \A s \in FeedSymbols :
        (s \in DOMAIN states' /\ states'[s].wad # Lookup(s).wad) =>
            /\ Lookup(s).prev_close # None
            /\ last'.op = "on_message"
            /\ last'.sym = s

C4_Seeding == [][C4_SeedStep /\ C4_WadStep]_vars

C4_Witness ==
    /\ last.op = "on_message"
    /\ last.outcome = "seed"
    /\ St = [prev_close |-> Some(1), wad |-> 0, sma_buf |-> << >>, last_rel |-> None]

\* the messages whose c, h, l and T all parse
Parse_fields(m) == m.json /\ m.c # None /\ m.h # None /\ m.l # None /\ m.T # None

\* C5: every close processed after the seed with high >= low changes wad by
\* +(high-low) if close > prev_close, by -(high-low) if close < prev_close and
\* by 0 if they are equal; afterwards prev_close is the candle's close.
WellFormed == {m \in MsgsAB : Parse_fields(m) /\ m.h[1] >= m.l[1]}

C5_Inv ==
    pc = "open" =>
        \A m \in WellFormed :
            (Parse(m) = "candle" /\ Lookup(SymOf(m)).prev_close # None) =>
                LET s == SymOf(m)
                    prev == states[s].prev_close[1]
                    new == on_message(m).states[s]
                    delta == new.wad - states[s].wad
                IN  /\ m.c[1] > prev => delta = m.h[1] - m.l[1]
                    /\ m.c[1] < prev => delta = -(m.h[1] - m.l[1])
                    /\ m.c[1] = prev => delta = 0
                    /\ new.prev_close = Some(m.c[1])

C5_Accumulation == []C5_Inv

C5_Witness == Accumulated /\ St.wad < 0 /\ St.prev_close = Some(0)

\* C6: the window never holds more than N entries; it is the last min(N, k)
\* snapshots of wad in insertion order, the newest being the current wad and
\* the oldest evicted on overflow; the relation logic only runs at length N.
LastN(seq, n) == IF Len(seq) <= n THEN seq ELSE SubSeq(seq, Len(seq) - n + 1, Len(seq))

C6_Inv ==
    /\ \A s \in DOMAIN states :
        /\ Len(states[s].sma_buf) <= cfg.SMA_LEN
        /\ states[s].sma_buf # << >> => states[s].sma_buf[Len(states[s].sma_buf)] = states[s].wad
        /\ states[s].sma_buf = << >> => states[s].wad = 0
        /\ states[s].last_rel # None => Len(states[s].sma_buf) = cfg.SMA_LEN
    /\ (last.op = "on_message" /\ (last.outcome \in {"evaluated", "render_failed"} \/ sent # << >>))
           => Len(St.sma_buf) = cfg.SMA_LEN

C6_WindowStep ==
    \A s \in DOMAIN states' :
        IF last'.op = "on_message" /\ last'.sym = s /\ last'.outcome # "seed"
        THEN states'[s].sma_buf = LastN(Append(Lookup(s).sma_buf, states'[s].wad), cfg.SMA_LEN)
        ELSE states'[s].sma_buf = Lookup(s).sma_buf

C6_BoundedWindow == []C6_Inv /\ [][C6_WindowStep]_vars

C6_Witness ==
    /\ Evaluation
    /\ last.rel0 # None
    /\ cfg.SMA_LEN = MaxSmaLen
    /\ St.sma_buf[1] # St.sma_buf[2]

\* C7: when wad equals the window average the relation is Below: the tie
\* emits a Down event if last_rel was Above, nothing if it was Below or
\* unknown, and no other kind of event.
C7_TieBreak ==
    (Evaluation /\ Tie(St)) =>
        IF last.rel0 = Some(1) THEN OneEvent(last.sym, -1) ELSE NoEvent

\* C8: once a close has been processed with the window at length N, last_rel
\* equals the relation just computed, whether or not an event fired and
\* whether or not the alert could be formatted, printed and delivered.
C8_LastRelAlwaysSet == Evaluation => St.last_rel = Some(NewRel(St))

\* C9: no step of the supervisor (connect, on_open with its notification,
\* on_error, on_close, return, backoff, interrupt) changes the store, so a
\* close after a reconnect meets the state its predecessor left.
SupervisorStep ==
    \/ Connect
    \/ OnOpen
    \/ OnError
    \/ OnClose
    \/ RunReturns
    \/ RunRaises
    \/ Wake
    \/ Interrupt
    \/ Kill

C9_StateSurvives == [][SupervisorStep => (states' = states /\ cfg' = cfg)]_vars

C9_Witness ==
    /\ pc = "open"
    /\ last.op = "on_open"
    /\ "A" \in DOMAIN states
    /\ states["A"].last_rel # None
    /\ states["A"].wad # 0

\* C10: a message that is not valid JSON, has no symbol, lacks or has a
\* non-numeric c, h, l or T, or is not a closed bar is dropped: the handler
\* returns, no alert is sent, no state is created and none is changed.
Malformed(m) ==
    \/ ~m.json
    \/ (m.s = "" /\ m.ks = "")
    \/ m.c = None \/ m.h = None \/ m.l = None \/ m.T = None
    \/ ~m.x

MalformedMsgs == {m \in MsgsAB : Malformed(m)}

C10_Inv ==
    pc = "open" =>
        \A m \in MalformedMsgs :
            LET r == on_message(m)
            IN  /\ r.states = states
                /\ r.texts = << >>
                /\ r.last.outcome \in {"exception", "drop_symbol", "drop_open"}

C10_MalformedDropped == []C10_Inv

C10_Witness ==
    /\ last.op = "on_message"
    /\ last.outcome = "exception"
    /\ "A" \in DOMAIN states
    /\ states["A"].last_rel # None

\* C11: a message whose upper-cased symbol is not on the watch-list changes
\* nothing and emits nothing; the store only ever holds watch-list symbols,
\* each created by its first valid final close and never removed.
JsonMsgs == {m \in MsgsAB : m.json}

C11_Inv ==
    /\ DOMAIN states \subseteq cfg.SYMBOLS
    /\ pc = "open" =>
        \A m \in JsonMsgs :
            SymOf(m) \notin cfg.SYMBOLS =>
                LET r == on_message(m)
                IN  /\ r.states = states
                    /\ r.texts = << >>
                    /\ r.last.outcome = "drop_symbol"

C11_StoreStep ==
    /\ DOMAIN states \subseteq DOMAIN states'
    /\ \A s \in DOMAIN states' \ DOMAIN states :
        /\ last'.op = "on_message"
        /\ last'.sym = s
        /\ last'.outcome = "seed"

C11_UnknownDropped == []C11_Inv /\ [][C11_StoreStep]_vars

C11_Witness ==
    /\ last.op = "on_message"
    /\ last.outcome = "drop_symbol"
    /\ DOMAIN states = {"A"}
    /\ states["A"].sma_buf # << >>

\* C12: when a CrossoverEvent is emitted the symbol's state is the same
\* however the delivery ends (ok, non-200, exception, unconfigured); there is
\* exactly one send_telegram call, and the handler returns normally.
C12_Inv ==
    pc = "open" =>
        \A m \in WellFormed :
            LET r == on_message(m)
                s == SymOf(m)
            IN  (Parse(m) = "candle" /\ r.texts # << >>) =>
                    /\ Len(r.texts) = 1
                    /\ \A d \in Deliveries(r.texts) :
                        LET f == Completed(r, d)
                        IN  /\ Len(d) = 1
                            /\ f.last.outcome = "evaluated"
                            /\ f.states[s].last_rel = Some(r.texts[1].dir)
                            /\ f.states[s].last_rel = Some(NewRel(f.states[s]))
                            /\ f.states[s].wad = r.texts[1].wad
                            /\ f.states[s].prev_close = m.c
                            /\ \A e \in Deliveries(r.texts) : Completed(r, e).states = f.states

C12_SentStep ==
    (last'.op = "on_message" /\ sent' # << >>) =>
        /\ Len(sent') = 1
        /\ pc' = "open"
        /\ last'.outcome = "evaluated"
        /\ states'[last'.sym].last_rel = Some(sent'[1].text.dir)

C12_NotificationIsolated == []C12_Inv /\ [][C12_SentStep]_vars

C12_Witness ==
    /\ Evaluation
    /\ Len(sent) = 1
    /\ sent[1].text.kind = "cross"
    /\ sent[1].result = "exception"
    /\ St.last_rel = Some(sent[1].text.dir)

\* C13: after a connection has ended, the next connection attempt is only
\* made once the backoff sleep has run: main() reaches run_forever either
\* for the first time or from the end of time.sleep(5).
C13_BackoffBeforeReconnect ==
    [][(pc = "loop" /\ pc' = "connecting") => last.op \in {"start", "wake"}]_vars

\* C14: main() only ends on the stop signal, and then the shutdown
\* notification has been handed to send_telegram before it ends.
C14_StopNotifies ==
    pc \in {"stopped", "killed"} =>
        \E i \in 1..Len(sent) : sent[i].text.kind = "stopped"

(* ------------------- the worked example of the README ---------------- *)
\* largest price (in ticks) of the candles of the worked example
E2EMaxPrice == 6

\* closed candles of A with low <= close <= high, prices up to E2EMaxPrice
E2EMsgs ==
    {m \in {Candle("A", c, h, l, T) : c \in 0..E2EMaxPrice, h \in 0..E2EMaxPrice,
                                      l \in 0..E2EMaxPrice, T \in TsValues} :
        m.l[1] <= m.c[1] /\ m.c[1] <= m.h[1]}

\* the windows the example goes through: the seed, then WAD 2, 2, -1, 5
E2EWindows == { << >>, <<2>>, <<2, 2>>, <<2, 2, -1>>, <<2, -1, 5>> }

\* SMA_LEN=3, SYMBOLS=A
InitE2E ==
    /\ cfg \in [SYMBOLS : {{"A"}}, SMA_LEN : {3}, telegram : BOOLEAN]
    /\ states = << >>
    /\ pc = "loop"
    /\ last = Callback("start")
    /\ sent = << >>

\* the feed delivers a candle that continues the example
DeliverE2E ==
    \E m \in E2EMsgs : OnMessage(m) /\ states'["A"].sma_buf \in E2EWindows

NextE2E ==
    \/ Connect
    \/ OnOpen
    \/ DeliverE2E
    \/ OnError
    \/ OnClose
    \/ RunReturns
    \/ RunRaises
    \/ Wake
    \/ Interrupt
    \/ Kill

SpecE2E == InitE2E /\ [][NextE2E]_vars

\* C15: in the worked example (N = 3, one symbol, WAD 2, 2, -1, 5 after the
\* seed) the seed and the first three accumulating closes emit nothing, the
\* third leaves last_rel Below with average 1, and the close that makes the
\* WAD 5 emits exactly one event, Up, with average 2.
C15_EndToEnd ==
    Processed =>
        IF St.sma_buf = <<2, -1, 5>>
        THEN OneEvent("A", 1) /\ Sum(St.sma_buf) = 2 * Len(St.sma_buf)
        ELSE /\ NoEvent
             /\ St.sma_buf = <<2, 2, -1>> =>
                    /\ St.last_rel = Some(-1)
                    /\ Sum(St.sma_buf) = 1 * Len(St.sma_buf)
             /\ St.sma_buf \in {<< >>, <<2>>, <<2, 2>>} => St.last_rel = None

(* ------------------------- two watched symbols ----------------------- *)
\* the feed of two watched symbols: closes that rise, fall or repeat, with
\* a close time on either side of the gmtime limit, and an unwatched symbol
ABMsgs ==
    {[BaseMsg EXCEPT !.s = s, !.c = Some(c), !.T = Some(T)] :
        s \in FeedSymbols, c \in {0, 1}, T \in TsValues}
    \cup {[BaseMsg EXCEPT !.s = "X"]}

\* SYMBOLS=A,B  SMA_LEN=2
InitAB ==
    /\ cfg \in [SYMBOLS : {{"A", "B"}}, SMA_LEN : {2}, telegram : BOOLEAN]
    /\ states = << >>
    /\ pc = "loop"
    /\ last = Callback("start")
    /\ sent = << >>

\* closes drawn from {0, 1} cannot rise or fall twice in a row, which keeps
\* every running sum within -1..1
DeliverAB == \E m \in ABMsgs : OnMessage(m)

NextAB ==
    \/ Connect
    \/ OnOpen
    \/ DeliverAB
    \/ OnError
    \/ OnClose
    \/ RunReturns
    \/ RunRaises
    \/ Wake
    \/ Interrupt
    \/ Kill

SpecAB == InitAB /\ [][NextAB]_vars

\* the state the store holds for s, the default one if it holds none
Own(s) == IF s \in DOMAIN states THEN states[s] ELSE WadState

\* what a message for s does is determined by the message and the state of
\* s alone: the state s is left in, and the texts handed to the notifier
C16_Inv ==
    pc = "open" =>
        \A m \in ABMsgs :
            LET s == on_message(m).last.sym
                a == Advance(Own(s), s, m.c[1], m.h[1], m.l[1], m.T[1], cfg.SMA_LEN)
            IN  s # "" =>
                    /\ on_message(m).states[s] = a.st
                    /\ on_message(m).texts = a.texts
                    /\ on_message(m).last.outcome = a.outcome

\* no step touches the state, or the presence in the store, of a symbol
\* other than the one the delivered message is for
C16_Frame ==
    \A s \in FeedSymbols :
        s # last'.sym =>
            /\ s \in DOMAIN states' <=> s \in DOMAIN states
            /\ s \in DOMAIN states => states'[s] = states[s]

\* C16: processing a message for symbol s leaves the state of every other
\* symbol unchanged, and what it does for s (new state, events) depends on
\* s's own state only, hence on the closes of s alone, however the messages
\* of other symbols are interleaved.
C16_Independence == []C16_Inv /\ [][C16_Frame]_vars

C16_Witness ==
    /\ Evaluation
    /\ last.sym = "B"
    /\ OneEvent("B", 1)
    /\ "A" \in DOMAIN states
    /\ states["A"].last_rel = Some(-1)
    /\ states["A"].sma_buf # states["B"].sma_buf

\* between deliveries: last_rel is unknown exactly while the window is short,
\* and a known one is Above or Below
C17_Inv ==
    \A s \in DOMAIN states :
        /\ states[s].last_rel = None <=> Len(states[s].sma_buf) < cfg.SMA_LEN
        /\ states[s].last_rel \in {None, Some(1), Some(-1)}

\* a known last_rel stays known and a full window stays full
C17_Step ==
    \A s \in DOMAIN states :
        states[s].last_rel # None =>
            /\ s \in DOMAIN states'
            /\ states'[s].last_rel # None
            /\ Len(states'[s].sma_buf) = cfg.SMA_LEN

\* C17: for every symbol in the store last_rel is unknown exactly when the
\* window has fewer than N entries; it becomes Above or Below at the close
\* that first fills the window and never returns to unknown, and the window
\* never shrinks below N again.
C17_KnownIffFull == []C17_Inv /\ [][C17_Step]_vars

C17_Witness ==
    /\ Evaluation
    /\ last.rel0 = None
    /\ St.last_rel = Some(-1)
    /\ cfg.SMA_LEN = MaxSmaLen

\* the step hands an event for s with direction d to the notifier
Emits(s, d) ==
    \E i \in 1..Len(sent') :
        /\ sent'[i].text.kind = "cross"
        /\ sent'[i].text.sym = s
        /\ sent'[i].text.dir = d

\* an event for s with direction d is emitted only from the opposite stored
\* relation and stores d; a known stored relation changes only in a step
\* that emits the event for the new one
C18_Step ==
    \A s \in FeedSymbols : \A d \in {1, -1} :
        /\ Emits(s, d) =>
              /\ s \in DOMAIN states
              /\ states[s].last_rel = Some(-d)
              /\ states'[s].last_rel = Some(d)
              /\ ~Emits(s, -d)
        /\ (s \in DOMAIN states /\ states[s].last_rel = Some(-d)) =>
              \/ states'[s].last_rel = Some(-d)
              \/ states'[s].last_rel = Some(d) /\ Emits(s, d)

\* C18: the directions of the successive events of a symbol alternate.  By
\* C18_Step the stored relation of s is the direction of the last event of s
\* from that event until the next one, across every other step (messages of
\* any symbol, reconnects), and the next event has the opposite direction.
C18_Alternation == [][C18_Step]_vars

C18_Witness ==
    /\ Evaluation
    /\ OneEvent(last.sym, -1)
    /\ last.rel0 = Some(1)
    /\ St.last_rel = Some(-1)
    /\ ~Tie(St)

\* C19: with N = 1 the window is the current wad alone, so its average
\* always equals the current wad: every evaluation classifies as Below and
\* no CrossoverEvent is ever emitted.
C19_NoEventAtOne ==
    cfg.SMA_LEN = 1 =>
        /\ NoEvent
        /\ \A s \in DOMAIN states :
              /\ states[s].sma_buf \in {<< >>, <<states[s].wad>>}
              /\ states[s].last_rel \in {None, Some(-1)}
        /\ Evaluation => Tie(St) /\ St.last_rel = Some(-1)

C19_Witness ==
    /\ cfg.SMA_LEN = 1
    /\ Evaluation
    /\ last.rel0 = Some(-1)
    /\ St.wad # 0

\* the closed candles of A whose close repeats the stored prev_close
Repeats == {m \in Candles({"A"}) : Own("A").prev_close = m.c}

\* C20: a final candle whose close equals prev_close leaves wad and
\* prev_close unchanged but still appends one more snapshot of wad to the
\* window (evicting the oldest when full) and, at length N, runs the
\* relation evaluation; the close time plays no part in the new wad,
\* prev_close or window.
C20_NotIdempotent ==
    pc = "open" =>
        \A m \in Repeats :
            LET st == Own("A")
                r == on_message(m)
                st2 == r.states["A"]
            IN  /\ st2.wad = st.wad
                /\ st2.prev_close = st.prev_close
                /\ st2.sma_buf = LastN(Append(st.sma_buf, st.wad), cfg.SMA_LEN)
                /\ r.last.outcome =
                      IF Len(st2.sma_buf) < cfg.SMA_LEN THEN "bootstrap"
                      ELSE IF r.texts = << >> /\ Crosses(st.last_rel, NewRel(st2))
                           THEN "render_failed" ELSE "evaluated"
                /\ \A T \in TsValues :
                      LET q == on_message([m EXCEPT !.T = Some(T)]).states["A"]
                      IN  /\ q.wad = st2.wad
                          /\ q.prev_close = st2.prev_close
                          /\ q.sma_buf = st2.sma_buf

\* a state in which re-delivering a candle with the stored close changes
\* the window sum and emits an event
C20_Witness ==
    /\ pc = "open"
    /\ last.op = "on_message"
    /\ last.sym = "A"
    /\ \E m \in Repeats :
          /\ on_message(m).texts # << >>
          /\ Sum(on_message(m).states["A"].sma_buf) # Sum(Own("A").sma_buf)
          /\ on_message(m).states["A"].wad = Own("A").wad
====
